---- MODULE Spec2Model ----
(***************************************************************************)
(* Model of the ranking pipeline of ranker.py: chunk_text, build_index,    *)
(* rank_with_queries and the __main__ build-or-load decision.              *)
(*                                                                         *)
(* Text is modelled as a sequence of sentences, a sentence as a sequence   *)
(* of words, and a word as its position in the document (all words of a    *)
(* document are distinct), so that equalities between word sequences are   *)
(* decided by position.  A chunk is modelled by the words of c.split().    *)
(***************************************************************************)
EXTENDS Integers, Sequences, FiniteSets, TLC

\* ----------------- Config (ranker.py 23-25, 72, 151) -----------------
CHUNK_WORDS == 500
CHUNK_OVERLAP == 80
TOP_K == 50
MIN_WORDS == 40
TOP_COPY_DEFAULT == 30

\* ----------------- Bounds of the model -----------------
MaxSents == 3
MaxRuns == 2

\* Sentence lengths (in words) the texts are built from.
SentLens == {10, 25, 41, 45, 470}
\* Values of the chunk_words and overlap parameters of chunk_text.
ChunkWordsChoices == {10, 50, CHUNK_WORDS}
OverlapChoices == {0, 20, 45, CHUNK_OVERLAP}

VARIABLES
    \* ---- chunk_text, one call ----
    c_pc,        \* "idle" | "loop" | "done"
    c_lens,      \* the sentence lengths of the text
    c_words,     \* parameter chunk_words
    c_overlap,   \* parameter overlap
    c_i,         \* index of the next sentence of sents
    c_st,        \* locals: [chunks, buf, buf_words]
    c_result,    \* the returned list
    c_kept,      \* history: positions in chunks of the returned chunks
    c_bufSents,  \* history: indices of the sentences appended to buf
    c_chunkSents, \* history: for each closed chunk, the sentences it was made of
    \* ---- the pipeline ----
    pc,          \* position of the process in __main__
    runs,        \* number of runs started
    top_k,       \* configuration: TOP_K
    top_copy,    \* configuration: the cutoff of line 151
    library,     \* LIBRARY_DIR: file name -> the PDF
    query,       \* QUERY_DIR: the texts of the query PDFs
    index_faiss, \* INDEX_DIR/index.faiss
    meta_json,   \* INDEX_DIR/meta.json
    output_dir,  \* OUTPUT_DIR: set of <<rank, pdf>> file names
    index,       \* rank_with_queries: the loaded index
    meta,        \* rank_with_queries: the loaded metadata
    q_vec,       \* rank_with_queries: shape of the pooled vector
    results,     \* rank_with_queries: zip(scores[0], ids[0])
    per_pdf,     \* rank_with_queries: the grouping dict, in insertion order
    ranked,      \* rank_with_queries: the sorted list
    failedAt,    \* where the run raised, "" if it did not
    searchInvoked, \* history: index.search was called in this run
    rankStarted, \* history: rank_with_queries was entered in this run
    outBefore,   \* history: OUTPUT_DIR when the run started
    copyFailed   \* history: ranks whose copy raised in this run

chunkVars == <<c_pc, c_lens, c_words, c_overlap, c_i, c_st, c_result,
               c_kept, c_bufSents, c_chunkSents>>

pipeVars == <<pc, runs, top_k, top_copy, library, query, index_faiss, meta_json,
              output_dir, index, meta, q_vec, results, per_pdf, ranked, failedAt,
              searchInvoked, rankStarted, outBefore, copyFailed>>

vars == <<chunkVars, pipeVars>>

\* ----------------- Sequence helpers -----------------
Min(a, b) == IF a <= b THEN a ELSE b

RECURSIVE SumSeq(_)
SumSeq(s) == IF s = <<>> THEN 0 ELSE Head(s) + SumSeq(Tail(s))

RECURSIVE SeqsOver(_, _)
\* all sequences over S of length at most n
SeqsOver(S, n) ==
    IF n = 0 THEN {<<>>}
    ELSE LET shorter == SeqsOver(S, n - 1)
         IN shorter \cup {Append(q, x) : q \in {p \in shorter : Len(p) = n - 1}, x \in S}

\* Python seq[-k:] for k >= 0: seq[-0:] is seq[0:], the whole sequence.
LastN(seq, k) ==
    IF k = 0 \/ k >= Len(seq) THEN seq
    ELSE SubSeq(seq, Len(seq) - k + 1, Len(seq))

\* Python seq[:k] for k >= 0.
FirstN(seq, k) == SubSeq(seq, 1, Min(k, Len(seq)))

RECURSIVE SortedSeq(_)
\* the elements of a finite set of integers in ascending order
SortedSeq(S) ==
    IF S = {} THEN <<>>
    ELSE LET m == CHOOSE x \in S : \A y \in S : x <= y
         IN <<m>> \o SortedSeq(S \ {m})

RECURSIVE Join(_)
\* " ".join(buf).split(): the words of the pieces of buf, in order
Join(buf) == IF buf = <<>> THEN <<>> ELSE Head(buf) \o Join(Tail(buf))

\* ----------------- sent_tokenize -----------------
\* The words of sentence j of a text with sentence lengths lens: the
\* positions of the words in the document.
SentWords(lens, j) ==
    LET start == SumSeq(SubSeq(lens, 1, j - 1))
    IN [k \in 1..lens[j] |-> start + k]

sent_tokenize(lens) == [j \in 1..Len(lens) |-> SentWords(lens, j)]

\* ----------------- chunk_text (ranker.py 51-72) -----------------
ChunkStart == [chunks |-> <<>>, buf |-> <<>>, buf_words |-> 0]

\* The overlap seed of line 65.
OverlapTailFirst(closed, overlap) == FirstN(closed, overlap)

OverlapTail(closed, overlap) == LastN(closed, overlap)

\* Line 67 with the counter restarted at zero.
ChunkStepResetCount(st, s, chunk_words, overlap) ==
    LET w == Len(s)
    IN IF st.buf_words + w <= chunk_words
       THEN [chunks |-> st.chunks,
             buf |-> Append(st.buf, s),
             buf_words |-> st.buf_words + w]
       ELSE LET closed == Join(st.buf)
                tail == LastN(closed, overlap)
            IN [chunks |-> Append(st.chunks, closed),
                buf |-> <<tail, s>>,
                buf_words |-> 0]

\* One iteration of the for loop, lines 57-67.
ChunkStep(st, s, chunk_words, overlap) ==
    LET w == Len(s)
    IN IF st.buf_words + w <= chunk_words
       THEN [chunks |-> st.chunks,
             buf |-> Append(st.buf, s),
             buf_words |-> st.buf_words + w]
       ELSE LET closed == Join(st.buf)
                tail == OverlapTail(closed, overlap)
            IN [chunks |-> Append(st.chunks, closed),
                buf |-> <<tail, s>>,
                buf_words |-> Len(tail) + w]

\* Lines 69-70: the final buffer is flushed when the list buf is non-empty.
ChunkFlush(st) ==
    IF st.buf # <<>> THEN Append(st.chunks, Join(st.buf)) ELSE st.chunks

\* Line 72: the filter of the returned list.
RetainedAtLeast(c) == Len(c) >= MIN_WORDS

Retained(c) == Len(c) > MIN_WORDS

KeptPositions(chunks) == {k \in 1..Len(chunks) : Retained(chunks[k])}

FilterChunks(chunks) == SelectSeq(chunks, Retained)

RECURSIVE ChunkLoop(_, _, _, _)
ChunkLoop(st, sents, chunk_words, overlap) ==
    IF sents = <<>> THEN st
    ELSE ChunkLoop(ChunkStep(st, Head(sents), chunk_words, overlap),
                   Tail(sents), chunk_words, overlap)

chunk_text(lens, chunk_words, overlap) ==
    FilterChunks(ChunkFlush(ChunkLoop(ChunkStart, sent_tokenize(lens),
                                      chunk_words, overlap)))

\* ----------------- The pipeline: files and configuration -----------------
\* a file that does not exist
NoPdf == [exists |-> FALSE, sents |-> <<>>]
NoIndex == [exists |-> FALSE, build |-> 0, ntotal |-> 0]
NoMeta == [exists |-> FALSE, build |-> 0, meta |-> <<>>]

Pdf(sents) == [exists |-> TRUE, sents |-> sents]

\* os.listdir(LIBRARY_DIR), in listing order
LibFiles == <<"a.pdf", "b.pdf">>

\* Texts of a library PDF, as sentence lengths: no text, a text too short
\* to give a chunk, a text of one chunk, a text of two chunks.
LibTexts == {<<>>, <<10>>, <<45>>, <<470, 45>>}

\* Contents of QUERY_DIR: no PDF, a PDF without text, a PDF whose text gives
\* no chunk, a PDF of one chunk, two PDFs.
QuerySets == {<<>>, <<<<>>>>, <<<<10>>>>, <<<<45>>>>, <<<<10>>, <<470, 45>>>>}

TopKChoices == {1, 3, TOP_K}
TopCopyChoices == {1, TOP_COPY_DEFAULT}

\* Inner products of the query vector with the indexed vectors.
ScoreVals == {1, 2, 3}

\* The score faiss reports with label -1 when fewer than k vectors exist
\* (-3.4028235e38 in faiss), below every inner product.
NEG_FLT_MAX == -1000

Range(f) == {f[x] : x \in DOMAIN f}

\* the state of the pipeline variables while chunk_text is studied alone
PipeIdle ==
    /\ pc = "idle"
    /\ runs = 0
    /\ top_k = TOP_K
    /\ top_copy = TOP_COPY_DEFAULT
    /\ library = [f \in Range(LibFiles) |-> NoPdf]
    /\ query = <<>>
    /\ index_faiss = NoIndex
    /\ meta_json = NoMeta
    /\ output_dir = {}
    /\ index = NoIndex
    /\ meta = <<>>
    /\ q_vec = <<>>
    /\ results = <<>>
    /\ per_pdf = <<>>
    /\ ranked = <<>>
    /\ failedAt = ""
    /\ searchInvoked = FALSE
    /\ rankStarted = FALSE
    /\ outBefore = {}
    /\ copyFailed = {}

\* ----------------- build_index (ranker.py 75-107) -----------------
RECURSIVE BuildMeta(_, _)
\* Lines 79-88: one metadata record per chunk of each PDF of the library,
\* in listing order; a PDF without text is skipped.
BuildMeta(files, lib) ==
    IF files = <<>> THEN <<>>
    ELSE LET pdf == Head(files)
             chunks == IF ~lib[pdf].exists \/ lib[pdf].sents = <<>> THEN <<>>
                       ELSE chunk_text(lib[pdf].sents, CHUNK_WORDS, CHUNK_OVERLAP)
         IN [k \in 1..Len(chunks) |-> pdf] \o BuildMeta(Tail(files), lib)

\* Lines 92-97: the shape of model.encode(chunks): (n, dim) for n >= 1
\* chunks, and the one-dimensional (0,) for an empty list.
Dim == 2
EncodeShape(n) == IF n = 0 THEN <<0>> ELSE <<n, Dim>>

\* ----------------- rank_with_queries (ranker.py 110-163) -----------------
RECURSIVE QueryChunkCount(_)
\* Lines 118-122: the number of chunks of the query PDFs
QueryChunkCount(q) ==
    IF q = <<>> THEN 0
    ELSE Len(chunk_text(Head(q), CHUNK_WORDS, CHUNK_OVERLAP)) + QueryChunkCount(Tail(q))

\* Line 132: np.mean(q_embs, axis=0, keepdims=True) keeps the number of
\* dimensions: (n, dim) gives (1, dim), and (0,) gives (1,).
MeanShape(shape) == <<1>> \o Tail(shape)

\* Python meta[i] for an integer i: a negative i counts from the end.
\* "IndexError" when i is out of range.
MetaAt(m, i) ==
    IF i >= 0 /\ i < Len(m) THEN m[i + 1]
    ELSE IF i < 0 /\ -i <= Len(m) THEN m[Len(m) + i + 1]
    ELSE "IndexError"

\* Line 134: the outcomes of index.search(q_vec, k) on n vectors: the
\* min(k, n) best positions in descending score order (ties in any order),
\* then score NEG_FLT_MAX with label -1 up to length k.
SearchOutcomes(n, k) ==
    LET hitLen == Min(k, n)
        Pos == 0..(n - 1)
        Orders == {o \in [1..hitLen -> Pos] : \A a, b \in 1..hitLen : a # b => o[a] # o[b]}
        Best(o, sim) ==
            /\ \A a, b \in 1..hitLen : a < b => sim[o[a]] >= sim[o[b]]
            /\ \A x \in Pos : (\A a \in 1..hitLen : o[a] # x) =>
                                 \A a \in 1..hitLen : sim[o[a]] >= sim[x]
        Out(o, sim) ==
            [j \in 1..k |-> IF j <= hitLen THEN [s |-> sim[o[j]], i |-> o[j]]
                            ELSE [s |-> NEG_FLT_MAX, i |-> -1]]
    IN UNION {{Out(o, sim) : o \in {x \in Orders : Best(x, sim)}} : sim \in [Pos -> ScoreVals]}

\* Lines 136-138: per_pdf[meta[i]["pdf"]].append(float(s)).  A dict keeps
\* its keys in the order of their first insertion, and each list holds the
\* scores attributed to its key in the order of the results.
GroupScores(res, m) ==
    LET pdfAt(k) == MetaAt(m, res[k].i)
        firsts == {k \in 1..Len(res) : \A j \in 1..(k - 1) : pdfAt(j) # pdfAt(k)}
        keys == SortedSeq(firsts)
        scoresOf(pdf) ==
            LET mine == SelectSeq(res, LAMBDA r : MetaAt(m, r.i) = pdf)
            IN [j \in 1..Len(mine) |-> mine[j].s]
    IN [g \in 1..Len(keys) |-> [pdf |-> pdfAt(keys[g]), v |-> scoresOf(pdfAt(keys[g]))]]

\* Line 141: np.mean(v) as the exact fraction num/den.
Mean(v) == [num |-> SumSeq(v), den |-> Len(v)]

\* comparison of two fractions with positive denominators
FracGE(x, y) == x.num * y.den >= y.num * x.den
FracGT(x, y) == x.num * y.den > y.num * x.den
FracEQ(x, y) == x.num * y.den = y.num * x.den

\* Insertion into a list sorted by descending score, before the elements
\* of equal score.
InsertBeforeEqual(sorted, x) ==
    LET n == Cardinality({k \in 1..Len(sorted) : FracGT(sorted[k].score, x.score)})
    IN SubSeq(sorted, 1, n) \o <<x>> \o SubSeq(sorted, n + 1, Len(sorted))

\* Insertion into a list sorted by descending score, after the elements of
\* equal score.
InsertDesc(sorted, x) ==
    LET n == Cardinality({k \in 1..Len(sorted) : FracGE(sorted[k].score, x.score)})
    IN SubSeq(sorted, 1, n) \o <<x>> \o SubSeq(sorted, n + 1, Len(sorted))

RECURSIVE SortedDesc(_, _)
\* Lines 140-144: sorted(..., key=score, reverse=True) is stable: elements
\* of equal score keep the order of the input.
SortedDesc(acc, items) ==
    IF items = <<>> THEN acc
    ELSE SortedDesc(InsertDesc(acc, Head(items)), Tail(items))

Rank(groups) ==
    SortedDesc(<<>>, [g \in 1..Len(groups) |->
                        [pdf |-> groups[g].pdf, score |-> Mean(groups[g].v)]])

\* Line 151 with the cutoff left out.
CopyCountAll(cutoff, rk) == Len(rk)

\* Line 151: TOP_COPY = min(30, len(ranked))
CopyCount(cutoff, rk) == Min(cutoff, Len(rk))

\* Line 155: dst_name = f"{rank:02d}_{pdf}", as the pair it is made from
DstName(rank, pdf) == <<rank, pdf>>

\* ----------------- The pipeline as a process -----------------
Terminal == {"done", "failed", "crashed"}

Init ==
    /\ c_pc = "idle"
    /\ c_lens = <<>>
    /\ c_words = CHUNK_WORDS
    /\ c_overlap = CHUNK_OVERLAP
    /\ c_i = 1
    /\ c_st = ChunkStart
    /\ c_result = <<>>
    /\ c_kept = {}
    /\ c_bufSents = <<>>
    /\ c_chunkSents = <<>>
    /\ pc = "idle"
    /\ runs = 0
    /\ top_k \in TopKChoices
    /\ top_copy \in TopCopyChoices
    /\ library \in [Range(LibFiles) -> {Pdf(t) : t \in LibTexts} \cup {NoPdf}]
    /\ query = <<>>
    /\ index_faiss = NoIndex
    /\ meta_json = NoMeta
    /\ output_dir = {}
    /\ index = NoIndex
    /\ meta = <<>>
    /\ q_vec = <<>>
    /\ results = <<>>
    /\ per_pdf = <<>>
    /\ ranked = <<>>
    /\ failedAt = ""
    /\ searchInvoked = FALSE
    /\ rankStarted = FALSE
    /\ outBefore = {}
    /\ copyFailed = {}

Fail(where) ==
    /\ pc' = "failed"
    /\ failedAt' = where

\* __main__, lines 166-175: a run starts with the query directory as the
\* user left it and builds the index only when index.faiss is absent.
StartRun ==
    /\ pc \in {"idle"} \cup Terminal
    /\ runs < MaxRuns
    /\ runs' = runs + 1
    /\ query' \in QuerySets
    /\ pc' = IF ~index_faiss.exists THEN "build" ELSE "rank_load"
    /\ index' = NoIndex
    /\ meta' = <<>>
    /\ q_vec' = <<>>
    /\ results' = <<>>
    /\ per_pdf' = <<>>
    /\ ranked' = <<>>
    /\ failedAt' = ""
    /\ searchInvoked' = FALSE
    /\ rankStarted' = FALSE
    /\ outBefore' = output_dir
    /\ copyFailed' = {}
    /\ UNCHANGED <<top_k, top_copy, library, index_faiss, meta_json, output_dir>>
    /\ UNCHANGED chunkVars

\* build_index, lines 76-103: chunk, encode, add, write index.faiss.
\* embs.shape[1] raises IndexError on the shape of an empty encoding.
BuildWriteIndex ==
    /\ pc = "build"
    /\ LET m == BuildMeta(LibFiles, library)
           shape == EncodeShape(Len(m))
       IN IF Len(shape) < 2
          THEN /\ Fail("build")
               /\ UNCHANGED index_faiss
          ELSE /\ index_faiss' = [exists |-> TRUE, build |-> runs, ntotal |-> shape[1]]
               /\ pc' = "build_meta"
               /\ UNCHANGED failedAt
    /\ UNCHANGED <<runs, top_k, top_copy, library, query, meta_json, output_dir,
                   index, meta, q_vec, results, per_pdf, ranked,
                   searchInvoked, rankStarted, outBefore, copyFailed>>
    /\ UNCHANGED chunkVars

\* build_index, lines 104-107: write meta.json.
BuildWriteMeta ==
    /\ pc = "build_meta"
    /\ meta_json' = [exists |-> TRUE, build |-> runs, meta |-> BuildMeta(LibFiles, library)]
    /\ pc' = "rank_load"
    /\ UNCHANGED <<runs, top_k, top_copy, library, query, index_faiss, output_dir,
                   index, meta, q_vec, results, per_pdf, ranked, failedAt,
                   searchInvoked, rankStarted, outBefore, copyFailed>>
    /\ UNCHANGED chunkVars

\* The process stops between the two writes of lines 103 and 104 (killed,
\* or open/json.dump raises).
BuildInterrupted ==
    /\ pc = "build_meta"
    /\ pc' = "crashed"
    /\ UNCHANGED <<runs, top_k, top_copy, library, query, index_faiss, meta_json,
                   output_dir, index, meta, q_vec, results, per_pdf, ranked, failedAt,
                   searchInvoked, rankStarted, outBefore, copyFailed>>
    /\ UNCHANGED chunkVars

\* rank_with_queries, lines 111-113: read index.faiss, then meta.json;
\* open raises FileNotFoundError when meta.json is absent.
RankLoad ==
    /\ pc = "rank_load"
    /\ rankStarted' = TRUE
    /\ index' = index_faiss
    /\ IF ~meta_json.exists
       THEN /\ Fail("load")
            /\ UNCHANGED meta
       ELSE /\ meta' = meta_json.meta
            /\ pc' = "rank_query"
            /\ UNCHANGED failedAt
    /\ UNCHANGED <<runs, top_k, top_copy, library, query, index_faiss, meta_json,
                   output_dir, q_vec, results, per_pdf, ranked,
                   searchInvoked, outBefore, copyFailed>>
    /\ UNCHANGED chunkVars

\* rank_with_queries, lines 115-132: the assertion on q_pdfs, chunking,
\* encoding and pooling of the query chunks.
RankQuery ==
    /\ pc = "rank_query"
    /\ IF query = <<>>
       THEN /\ Fail("query")
            /\ UNCHANGED q_vec
       ELSE /\ q_vec' = MeanShape(EncodeShape(QueryChunkCount(query)))
            /\ pc' = "rank_search"
            /\ UNCHANGED failedAt
    /\ UNCHANGED <<runs, top_k, top_copy, library, query, index_faiss, meta_json,
                   output_dir, index, meta, results, per_pdf, ranked,
                   searchInvoked, rankStarted, outBefore, copyFailed>>
    /\ UNCHANGED chunkVars

\* rank_with_queries, line 134: index.search(q_vec, TOP_K); faiss unpacks
\* the shape of its argument as (n, d) and raises on any other shape.
RankSearch ==
    /\ pc = "rank_search"
    /\ searchInvoked' = TRUE
    /\ IF Len(q_vec) # 2
       THEN /\ Fail("search")
            /\ UNCHANGED results
       ELSE /\ results' \in SearchOutcomes(index.ntotal, top_k)
            /\ pc' = "rank_aggregate"
            /\ UNCHANGED failedAt
    /\ UNCHANGED <<runs, top_k, top_copy, library, query, index_faiss, meta_json,
                   output_dir, index, meta, q_vec, per_pdf, ranked,
                   rankStarted, outBefore, copyFailed>>
    /\ UNCHANGED chunkVars

\* rank_with_queries, lines 136-148: group the scores by PDF and sort.
RankAggregate ==
    /\ pc = "rank_aggregate"
    /\ IF \E k \in 1..Len(results) : MetaAt(meta, results[k].i) = "IndexError"
       THEN /\ Fail("aggregate")
            /\ UNCHANGED <<per_pdf, ranked>>
       ELSE /\ per_pdf' = GroupScores(results, meta)
            /\ ranked' = Rank(per_pdf')
            /\ pc' = "materialize"
            /\ UNCHANGED failedAt
    /\ UNCHANGED <<runs, top_k, top_copy, library, query, index_faiss, meta_json,
                   output_dir, index, meta, q_vec, results,
                   searchInvoked, rankStarted, outBefore, copyFailed>>
    /\ UNCHANGED chunkVars

\* rank_with_queries, lines 151-163: copy the top documents; a copy that
\* raises is skipped.
Materialize ==
    /\ pc = "materialize"
    /\ \E failed \in SUBSET (1..CopyCount(top_copy, ranked)) :
          /\ copyFailed' = failed
          /\ output_dir' = output_dir \cup
                {DstName(r, ranked[r].pdf) : r \in (1..CopyCount(top_copy, ranked)) \ failed}
    /\ pc' = "done"
    /\ UNCHANGED <<runs, top_k, top_copy, library, query, index_faiss, meta_json,
                   index, meta, q_vec, results, per_pdf, ranked, failedAt,
                   searchInvoked, rankStarted, outBefore>>
    /\ UNCHANGED chunkVars

Next ==
    \/ StartRun
    \/ BuildWriteIndex
    \/ BuildWriteMeta
    \/ BuildInterrupted
    \/ RankLoad
    \/ RankQuery
    \/ RankSearch
    \/ RankAggregate
    \/ Materialize

Spec == Init /\ [][Next]_vars

\* ----------------- chunk_text as a process -----------------
ChunkInit ==
    /\ c_pc = "loop"
    /\ c_lens \in SeqsOver(SentLens, MaxSents)
    /\ c_words \in ChunkWordsChoices
    /\ c_overlap \in OverlapChoices
    /\ c_i = 1
    /\ c_st = ChunkStart
    /\ c_result = <<>>
    /\ c_kept = {}
    /\ c_bufSents = <<>>
    /\ c_chunkSents = <<>>
    /\ PipeIdle

\* Lines 59-61: the sentence fits, it is appended to the buffer.
ChunkAppend ==
    /\ c_pc = "loop"
    /\ c_i <= Len(c_lens)
    /\ c_st.buf_words + c_lens[c_i] <= c_words
    /\ c_st' = ChunkStep(c_st, SentWords(c_lens, c_i), c_words, c_overlap)
    /\ c_bufSents' = Append(c_bufSents, c_i)
    /\ c_i' = c_i + 1
    /\ UNCHANGED <<c_pc, c_lens, c_words, c_overlap, c_result, c_kept, c_chunkSents>>
    /\ UNCHANGED pipeVars

\* Lines 62-67: the buffer is closed and the next one seeded.
ChunkClose ==
    /\ c_pc = "loop"
    /\ c_i <= Len(c_lens)
    /\ c_st.buf_words + c_lens[c_i] > c_words
    /\ c_st' = ChunkStep(c_st, SentWords(c_lens, c_i), c_words, c_overlap)
    /\ c_chunkSents' = Append(c_chunkSents, c_bufSents)
    /\ c_bufSents' = <<c_i>>
    /\ c_i' = c_i + 1
    /\ UNCHANGED <<c_pc, c_lens, c_words, c_overlap, c_result, c_kept>>
    /\ UNCHANGED pipeVars

\* Lines 69-72: flush, filter, return.
ChunkReturn ==
    /\ c_pc = "loop"
    /\ c_i > Len(c_lens)
    /\ LET all == ChunkFlush(c_st)
       IN /\ c_st' = [c_st EXCEPT !.chunks = all]
          /\ c_result' = FilterChunks(all)
          /\ c_kept' = KeptPositions(all)
          /\ c_chunkSents' = IF c_st.buf # <<>> THEN Append(c_chunkSents, c_bufSents)
                             ELSE c_chunkSents
    /\ c_pc' = "done"
    /\ UNCHANGED <<c_lens, c_words, c_overlap, c_i, c_bufSents>>
    /\ UNCHANGED pipeVars

ChunkNext == ChunkAppend \/ ChunkClose \/ ChunkReturn

ChunkSpec == ChunkInit /\ [][ChunkNext]_vars

\* ----------------- Properties of chunk_text -----------------
\* The last k words of a chunk, in the ordinary sense (none when k = 0).
LastWords(seq, k) ==
    IF k >= Len(seq) THEN seq ELSE SubSeq(seq, Len(seq) - k + 1, Len(seq))

\* position in chunks of the k-th returned chunk
KeptSeq == SortedSeq(c_kept)

\* sentence j is longer than chunk_words
Oversized(j) == c_lens[j] > c_words

\* the chunk at position p of chunks was seeded by an oversized sentence
SeededByOversized(p) ==
    /\ c_chunkSents[p] # <<>>
    /\ Oversized(c_chunkSents[p][1])

\* C8: every chunk returned by chunk_text has more than 40 words.
ReturnedChunksOverMinimum ==
    c_pc = "done" => \A k \in 1..Len(c_result) : Len(c_result[k]) > 40

\* A call that returned a final flushed chunk and removed a short one.
ReturnedChunksOverMinimumWitness ==
    /\ c_pc = "done"
    /\ c_result # <<>>
    /\ Len(c_st.chunks) \in c_kept
    /\ \E p \in 1..Len(c_st.chunks) : p \notin c_kept /\ c_st.chunks[p] # <<>>

\* C6 as stated: for consecutive returned chunks i and i+1, the first
\* `overlap` words of chunk i+1 are the last `overlap` words of chunk i,
\* unless chunk i+1 was seeded by an oversized sentence.
OverlapOfReturnedChunks ==
    c_pc = "done" =>
        \A k \in 1..(Len(c_result) - 1) :
            \/ SeededByOversized(KeptSeq[k + 1])
            \/ FirstN(c_result[k + 1], c_overlap) = LastWords(c_result[k], c_overlap)

\* C6 amended: for chunks at consecutive positions of the unfiltered list,
\* the first m words of the later one are the last m words of the earlier
\* one, where m = min(overlap, number of words of the earlier one).
OverlapOfAdjacentChunks ==
    \A p \in 1..(Len(c_st.chunks) - 1) :
        LET m == Min(c_overlap, Len(c_st.chunks[p]))
        IN /\ Len(c_st.chunks[p + 1]) >= m
           /\ FirstN(c_st.chunks[p + 1], m) = LastWords(c_st.chunks[p], m)

\* Two returned chunks, adjacent in the unfiltered list, the earlier one at
\* least `overlap` words long, the later one seeded by an ordinary sentence.
OverlapOfAdjacentChunksWitness ==
    /\ c_pc = "done"
    /\ c_overlap > 0
    /\ \E k \in 1..(Len(c_result) - 1) :
          /\ KeptSeq[k + 1] = KeptSeq[k] + 1
          /\ Len(c_result[k]) > c_overlap
          /\ ~SeededByOversized(KeptSeq[k + 1])

\* the positions of the chunks sentence j was appended to
ChunksOfSentence(j) ==
    {p \in 1..Len(c_chunkSents) :
        \E n \in 1..Len(c_chunkSents[p]) : c_chunkSents[p][n] = j}

\* C9 as stated: the chunk holding an oversized sentence holds the words of
\* that sentence and nothing else, and no empty chunk is produced.
OversizedSentenceAlone ==
    c_pc = "done" =>
        /\ \A j \in 1..Len(c_lens) :
              Oversized(j) =>
                  \A p \in ChunksOfSentence(j) : c_st.chunks[p] = SentWords(c_lens, j)
        /\ \A p \in 1..Len(c_st.chunks) : c_st.chunks[p] # <<>>

\* C9 amended: an oversized sentence is in exactly one chunk, whole, with
\* no other sentence; the chunk is the overlap seed taken from the chunk
\* closed before it followed by the sentence; no returned chunk is empty.
OversizedSentenceWithSeed ==
    c_pc = "done" =>
        /\ \A j \in 1..Len(c_lens) :
              Oversized(j) =>
                  /\ Cardinality(ChunksOfSentence(j)) = 1
                  /\ \A p \in ChunksOfSentence(j) :
                        /\ c_chunkSents[p] = <<j>>
                        /\ p > 1
                        /\ c_st.chunks[p] =
                              LastN(c_st.chunks[p - 1], c_overlap) \o SentWords(c_lens, j)
        /\ \A k \in 1..Len(c_result) : c_result[k] # <<>>

\* An oversized sentence that followed a non-empty buffer and was itself
\* followed by a sentence, in a call with a positive overlap.
OversizedSentenceWithSeedWitness ==
    /\ c_pc = "done"
    /\ c_overlap > 0
    /\ \E j \in 2..(Len(c_lens) - 1) :
          /\ Oversized(j)
          /\ \E p \in ChunksOfSentence(j) : c_st.chunks[p - 1] # <<>> /\ p \in c_kept

\* ----------------- Properties of the pipeline -----------------
\* the run has executed lines 115-132 of rank_with_queries
QueryStepDone ==
    \/ pc \in {"rank_search", "rank_aggregate", "materialize", "done"}
    \/ pc = "failed" /\ failedAt \in {"query", "search", "aggregate"}

\* the run has computed the ranked list
RankedComputed == pc \in {"materialize", "done"}

\* the number of chunks the library gives
LibraryChunkCount == Len(BuildMeta(LibFiles, library))

\* the results that are positions of the index, attributed to pdf
HitsOf(pdf) ==
    {k \in 1..Len(results) : results[k].i >= 0 /\ MetaAt(meta, results[k].i) = pdf}

RECURSIVE SumScores(_)
SumScores(K) ==
    IF K = {} THEN 0
    ELSE LET k == CHOOSE x \in K : TRUE
         IN results[k].s + SumScores(K \ {k})

\* the places of pdf in the ranked list
PlacesOf(pdf) == {r \in 1..Len(ranked) : ranked[r].pdf = pdf}

\* C1: a run of the ranking stage on an empty set of query chunks fails
\* at the query step and never calls index.search.
EmptyQueryFailsBeforeSearch ==
    (QueryStepDone /\ QueryChunkCount(query) = 0) =>
        /\ ~searchInvoked
        /\ pc \in Terminal => (pc = "failed" /\ failedAt = "query")

\* C2: each document with a returned chunk is ranked once with the mean of
\* the similarity scores of its returned chunks, and no other document is
\* ranked.
ScoreIsMeanOfOwnHits ==
    RankedComputed =>
        \A pdf \in Range(LibFiles) :
            /\ HitsOf(pdf) = {} => PlacesOf(pdf) = {}
            /\ HitsOf(pdf) # {} =>
                  /\ Cardinality(PlacesOf(pdf)) = 1
                  /\ \A r \in PlacesOf(pdf) :
                        FracEQ(ranked[r].score,
                               [num |-> SumScores(HitsOf(pdf)),
                                den |-> Cardinality(HitsOf(pdf))])

\* the place in the results of the first chunk of pdf
FirstHit(pdf) == CHOOSE k \in HitsOf(pdf) : \A j \in HitsOf(pdf) : k <= j

\* C3: the ranked list is in descending order of score, and documents of
\* equal score are in the order of their first chunk in the results.
RankedDescendingStable ==
    RankedComputed =>
        \A a, b \in 1..Len(ranked) :
            a < b =>
                /\ FracGE(ranked[a].score, ranked[b].score)
                /\ HitsOf(ranked[a].pdf) # {}
                /\ HitsOf(ranked[b].pdf) # {}
                /\ FracEQ(ranked[a].score, ranked[b].score) =>
                      FirstHit(ranked[a].pdf) < FirstHit(ranked[b].pdf)

\* Two documents with the same mean, one of two chunks and one of one
\* chunk, in a search whose results do not all have the same score.
RankedDescendingStableWitness ==
    /\ pc = "done"
    /\ Len(ranked) = 2
    /\ FracEQ(ranked[1].score, ranked[2].score)
    /\ ranked[1].score.den # ranked[2].score.den
    /\ results[1].s > results[2].s

EmptyLibraryGivesEmptyRanking ==
    (LibraryChunkCount = 0 /\ QueryChunkCount(query) > 0 /\ pc \in Terminal) =>
        /\ pc = "done"
        /\ ranked = <<>>

\* C7: when the ranking stage loads the index, both files exist, come from
\* the same build, and hold one record per vector per library chunk.
ArtifactsConsistentAtLoad ==
    pc = "rank_load" =>
        /\ index_faiss.exists
        /\ meta_json.exists
        /\ index_faiss.build = meta_json.build
        /\ Len(meta_json.meta) = index_faiss.ntotal
        /\ index_faiss.ntotal = LibraryChunkCount

\* C10: every grouped result is a position of the index, min(K, n) scores
\* are grouped in all, and each score of a document is the score of one of
\* its own chunks.
GroupedResultsAreIndexedChunks ==
    RankedComputed =>
        /\ \A k \in 1..Len(results) : results[k].i \in 0..(index.ntotal - 1)
        /\ SumSeq([g \in 1..Len(per_pdf) |-> Len(per_pdf[g].v)]) = Min(top_k, index.ntotal)
        /\ \A g \in 1..Len(per_pdf) :
              \A j \in 1..Len(per_pdf[g].v) :
                  \E k \in HitsOf(per_pdf[g].pdf) : results[k].s = per_pdf[g].v[j]

====
